---- MODULE Spec2Model ----
(***************************************************************************)
(* Model of the ingest service of rag-chat-website:                        *)
(*   helper.js   : checksumString, parseDocumentText, chunkText,           *)
(*                 createOpenAIEmbedding, upsertPgVectors, createNeo4jNodes *)
(*   index.js    : processResource, processOpenCanada, runIngest           *)
(*                 (the Postgres/pgvector variant, src/unnamed/part_000)   *)
(* Strings are modelled as sequences of one-character strings.             *)
(***************************************************************************)
EXTENDS Integers, Sequences, FiniteSets, TLC

\* ------------------------------------------------------------------------
\* Bounds of the model
\* ------------------------------------------------------------------------
MaxTextLen == 5      \* longest text given to the chunker specification
MaxWindow == 3       \* largest wordsPerChunk / overlapWords tried
MaxRequests == 2     \* number of requests the server receives in one behaviour
MaxProcessed == 2    \* number of processResource calls in one behaviour

\* ------------------------------------------------------------------------
\* String helpers (JavaScript String semantics)
\* ------------------------------------------------------------------------
Min(a, b) == IF a < b THEN a ELSE b
Max(a, b) == IF a > b THEN a ELSE b

\* the characters matched by \s
IsSpace(c) == c = " "

\* String.prototype.split(/\s+/): the pieces between maximal whitespace runs;
\* a leading or trailing run leaves an empty piece, "" splits into [""]
RECURSIVE SplitFrom(_, _, _, _)
SplitFrom(t, i, cur, acc) ==
  IF i > Len(t) THEN Append(acc, cur)
  ELSE IF IsSpace(t[i])
       THEN IF i > 1 /\ IsSpace(t[i-1])
            THEN SplitFrom(t, i + 1, cur, acc)
            ELSE SplitFrom(t, i + 1, <<>>, Append(acc, cur))
       ELSE SplitFrom(t, i + 1, Append(cur, t[i]), acc)

SplitWs(t) == SplitFrom(t, 1, <<>>, <<>>)

\* Array.prototype.join(" ")
RECURSIVE JoinSp(_)
JoinSp(ws) ==
  IF Len(ws) = 0 THEN <<>>
  ELSE IF Len(ws) = 1 THEN ws[1]
  ELSE ws[1] \o <<" ">> \o JoinSp(Tail(ws))

\* String.prototype.trim()
RECURSIVE TrimLeft(_)
TrimLeft(t) == IF Len(t) > 0 /\ IsSpace(t[1]) THEN TrimLeft(Tail(t)) ELSE t

RECURSIVE TrimRight(_)
TrimRight(t) ==
  IF Len(t) > 0 /\ IsSpace(t[Len(t)]) THEN TrimRight(SubSeq(t, 1, Len(t) - 1)) ELSE t

Trim(t) == TrimRight(TrimLeft(t))

\* Array.prototype.slice(from, to) with 0 <= from, 0-based, end exclusive
Slice(s, from, to) == SubSeq(s, from + 1, Min(to, Len(s)))

\* ------------------------------------------------------------------------
\* chunkText (helper.js)
\* ------------------------------------------------------------------------
SUMMARY_CHARS == 300

\* value standing for a call that never returns (the while loop does not end)
Diverges == <<[diverges |-> TRUE]>>

\* one chunk object pushed by the loop body
MkChunk(idx, slice) ==
  LET chunkTxt == Trim(JoinSp(slice))
  IN [chunkIndex |-> idx,
      text |-> chunkTxt,
      summary |-> SubSeq(chunkTxt, 1, Min(SUMMARY_CHARS, Len(chunkTxt)))]

\* the loop with the slice one word short: words.slice(start, start + W - 1)
RECURSIVE ChunkLoopShortSlice(_, _, _, _, _, _)
ChunkLoopShortSlice(words, W, O, i, idx, chunks) ==
  IF i < Len(words)
  THEN LET start == Max(0, i - O)
           slice == Slice(words, start, start + W - 1)
       IN ChunkLoopShortSlice(words, W, O, i + (W - O), idx + 1,
                              Append(chunks, MkChunk(idx, slice)))
  ELSE chunks

\* the loop with the cursor advancing one word too far: i += W - O + 1
RECURSIVE ChunkLoopWideStep(_, _, _, _, _, _)
ChunkLoopWideStep(words, W, O, i, idx, chunks) ==
  IF i < Len(words)
  THEN LET start == Max(0, i - O)
           slice == Slice(words, start, start + W)
       IN ChunkLoopWideStep(words, W, O, i + (W - O) + 1, idx + 1,
                            Append(chunks, MkChunk(idx, slice)))
  ELSE chunks

\* the while loop: cursor i, next index idx, chunks so far
RECURSIVE ChunkLoop(_, _, _, _, _, _)
ChunkLoop(words, W, O, i, idx, chunks) ==
  IF i < Len(words)
  THEN LET start == Max(0, i - O)
           slice == Slice(words, start, start + W)
       IN ChunkLoop(words, W, O, i + (W - O), idx + 1,
                    Append(chunks, MkChunk(idx, slice)))
  ELSE chunks

\* i never passes words.length when the cursor does not advance
chunkText(text, W, O) ==
  LET words == SplitWs(text)
  IN IF W - O <= 0 THEN Diverges ELSE ChunkLoop(words, W, O, 0, 0, <<>>)

\* ------------------------------------------------------------------------
\* JavaScript values used by the pipeline
\* ------------------------------------------------------------------------
Undefined == <<"#undefined">>
Truthy(x) == x # Undefined /\ x # <<>>
\* a || b
Or(a, b) == IF Truthy(a) THEN a ELSE b
\* template-literal conversion `${x}`
Str(x) == IF x = Undefined THEN <<"u","n","d","e","f","i","n","e","d">> ELSE x

Null == [kind |-> "null"]
\* null where the other values are strings
NullStr == <<"#null">>
Arr(items) == [kind |-> "array", items |-> items]

\* String.prototype.includes / endsWith
Includes(s, sub) ==
  \E i \in 0..(Len(s) - Len(sub)) : SubSeq(s, i + 1, i + Len(sub)) = sub
EndsWith(s, suf) ==
  Len(s) >= Len(suf) /\ SubSeq(s, Len(s) - Len(suf) + 1, Len(s)) = suf

\* String.prototype.toLowerCase on the characters of the model
LowerChar(c) ==
  CASE c = "C" -> "c" [] c = "S" -> "s" [] c = "V" -> "v" [] OTHER -> c
ToLowerCase(s) == [i \in 1..Len(s) |-> LowerChar(s[i])]

\* \w, '.' and '-' : the characters replace(/[^\w.-]/g, "_") keeps
KeptChars ==
  {"a","b","c","d","e","f","g","i","j","l","m","n","o","p","r","s","t","u",
   "v","x","1","2","3","_",".","-","C","S","V"}
Sanitize(s) == [i \in 1..Len(s) |-> IF s[i] \in KeptChars THEN s[i] ELSE "_"]

\* checksumString: SHA-256 hex digest, collision-free on the model's inputs
checksumString(str) == <<"sha256">> \o str

\* ------------------------------------------------------------------------
\* Configuration (index.js, read from the environment at start)
\* ------------------------------------------------------------------------
CHUNK_WORDS == 2
OVERLAP_WORDS == 1
VECTOR_DIM == 2

\* ------------------------------------------------------------------------
\* The catalog collaborator: what package_list / package_show answer
\* ------------------------------------------------------------------------
Req == {1, 2}

D1 == <<"d","1">>
D2 == <<"d","2">>

RCsv == [id |-> <<"r","1">>, url |-> <<"u",".","c","s","v">>,
         format |-> <<"C","S","V">>, mimetype |-> Undefined, name |-> <<"n","1">>]
RPng == [id |-> <<"r","2">>, url |-> <<"u",".","p","n","g">>,
         format |-> <<"p","n","g">>, mimetype |-> Undefined, name |-> <<"n","2">>]
RXml == [id |-> <<"r","3">>, url |-> <<"u","3">>,
         format |-> Undefined, mimetype |-> <<"x","m","l">>, name |-> Undefined]
RTxt == [id |-> <<"r","1">>, url |-> <<"u",".","t","x","t">>,
         format |-> <<"t","e","x","t">>, mimetype |-> Undefined, name |-> <<"n","4">>]

Pkg(title, rs) == [result |-> [title |-> title, notes |-> <<>>, resources |-> rs]]

\* a catalog: the listed ids and the package metadata of each id
CatalogA == [ids |-> <<D1>>, pkgs |-> [d \in {D1} |-> Pkg(<<"t">>, <<RCsv, RPng>>)]]
CatalogB == [ids |-> <<D1, D2>>,
             pkgs |-> [d \in {D1, D2} |->
                        IF d = D1 THEN Pkg(<<"t">>, <<RXml>>)
                                  ELSE Pkg(Undefined, <<RTxt>>)]]
\* two resources that carry a name and no id
RNameA == [id |-> Undefined, url |-> <<"u",".","t","x","t">>,
           format |-> <<"t","e","x","t">>, mimetype |-> Undefined, name |-> <<"n","1">>]
RNameB == [id |-> Undefined, url |-> <<"v",".","t","x","t">>,
           format |-> <<"t","e","x","t">>, mimetype |-> Undefined, name |-> <<"n","2">>]
CatalogC == [ids |-> <<D1>>, pkgs |-> [d \in {D1} |-> Pkg(<<"t">>, <<RNameA, RNameB>>)]]
\* resources without a url (a csv one and a text one), before a regular one
RNoUrlCsv == [id |-> <<"r","5">>, url |-> Undefined,
              format |-> <<"C","S","V">>, mimetype |-> Undefined, name |-> <<"n","5">>]
RNoUrl == [id |-> <<"r","6">>, url |-> Undefined,
           format |-> <<"t","e","x","t">>, mimetype |-> Undefined, name |-> <<"n","6">>]
CatalogD == [ids |-> <<D1>>,
             pkgs |-> [d \in {D1} |-> Pkg(<<"t">>, <<RNoUrlCsv, RNoUrl, RTxt>>)]]
Catalogs == {CatalogA, CatalogB, CatalogC, CatalogD}
\* one dataset with one resource
CatalogS == [ids |-> <<D1>>, pkgs |-> [d \in {D1} |-> Pkg(<<"t">>, <<RTxt>>)]]

\* process.env.API_SECRET: not set, or a secret
Secrets == {Undefined, <<"s">>}

\* the requests a client can send: method, url, and the x-api-key header
\* (absent, the secret, another value)
Methods == {"GET", "POST"}
Urls == {"/", "/trigger", "/ingest", "/health", "/other"}
Keys == {Undefined, <<"s">>, <<"x">>}
Requests == [method : Methods, url : Urls, key : Keys]

\* bodies a resource url can answer with
Contents == { <<>>, <<"a"," ","b">> }

\* ------------------------------------------------------------------------
\* State
\* ------------------------------------------------------------------------
VARIABLES
  catalog,      \* the catalog the collaborator serves
  pgClient,     \* TRUE iff DATABASE_URL was set (a client is connected)
  neo4jDriver,  \* TRUE iff NEO4J_URI/USER/PASSWORD were set
  files,        \* INGEST_BASE_DIR: path -> file content
  pgRows,       \* committed rows of table vectors: id -> [embedding, metadata]
  pgTxn,        \* transaction state of the one client connection
  graph,        \* the graph store: sources, datasets, documents
  received,     \* number of requests received so far
  processed,    \* number of processResource calls so far
  pc,           \* per request: where its handler is suspended
  resp,         \* per request: HTTP status of the last response, 0 if none
  respBody,     \* per request: the body of the last response
  req,          \* per request: the request the server callback is routing
  apiSecret,    \* process.env.API_SECRET
  walk,         \* per request: locals of processOpenCanada
  loc,          \* per request: locals of processResource
  calls,        \* per request: calls issued by the current processResource
  lastRes,      \* per raw path: the last result processResource returned for it
  cText, cW, cO, cOut   \* chunker specification: input and output

vars == <<catalog, pgClient, neo4jDriver, apiSecret, files, pgRows, pgTxn, graph,
          received, processed,
          pc, resp, respBody, req, walk, loc, calls, lastRes, cText, cW, cO, cOut>>

envVars == <<catalog, pgClient, neo4jDriver, apiSecret>>
chunkVars == <<cText, cW, cO, cOut>>
storeVars == <<files, pgRows, pgTxn, graph>>

None == "none"

NoWalk == [ids |-> <<>>, dsIdx |-> 0, pkg |-> None, resources |-> <<>>, rIdx |-> 0]
EmptyFn == [x \in {} |-> None]
NoResult == [pending |-> TRUE]
\* the chunker specification has not called the chunker yet
NoOut == <<[pending |-> TRUE]>>
\* nothing returned yet for a raw path
NoPrior == [res |-> NoResult, raw |-> <<>>]
NoLoc == [resource |-> None, datasetId |-> <<>>, raw |-> <<>>, checksum |-> <<>>,
          rawPath |-> <<>>, safeName |-> <<>>, previousChecksum |-> NullStr,
          chunks |-> <<>>, vectors |-> <<>>, idx |-> 0, result |-> NoResult,
          prior |-> NoPrior, before |-> EmptyFn]
\* the response bodies the server callback writes (JSON, or text for 404)
NoBody == [none |-> TRUE]
Unauthorized == [ok |-> FALSE, error |-> "unauthorized"]
CompletedBody == [ok |-> TRUE, msg |-> "Ingest completed (OpenCanada partial)"]
ErrorBody == [ok |-> FALSE, error |-> "Error"]
HealthBody == [ok |-> TRUE]
NotFoundText == [text |-> "Not found"]

\* no request is being routed
NoReq == [method |-> "", url |-> "", key |-> Undefined]
NoCalls == [embed |-> 0, embedFailed |-> 0, insert |-> 0, commit |-> 0,
            graph |-> 0, file |-> 0]

Upd(f, k, v) == [x \in DOMAIN f \cup {k} |-> IF x = k THEN v ELSE f[x]]

InitStores ==
  /\ files = EmptyFn
  /\ pgRows = EmptyFn
  /\ pgTxn = [active |-> FALSE, aborted |-> FALSE, work |-> EmptyFn]
  /\ graph = [sources |-> {}, datasets |-> {}, publishes |-> {}, docs |-> <<>>]
  /\ received = 0
  /\ processed = 0
  /\ pc = [q \in Req |-> "idle"]
  /\ resp = [q \in Req |-> 0]
  /\ respBody = [q \in Req |-> NoBody]
  /\ req = [q \in Req |-> NoReq]
  /\ walk = [q \in Req |-> NoWalk]
  /\ loc = [q \in Req |-> NoLoc]
  /\ calls = [q \in Req |-> NoCalls]
  /\ lastRes = EmptyFn

Init ==
  /\ catalog \in Catalogs
  /\ pgClient \in BOOLEAN
  /\ neo4jDriver \in BOOLEAN
  /\ apiSecret = Undefined
  /\ InitStores
  /\ cText = <<>> /\ cW = 1 /\ cO = 0 /\ cOut = NoOut

\* ------------------------------------------------------------------------
\* processOpenCanada (part_000, 180-201) and its helpers
\* ------------------------------------------------------------------------
\* extractResourcesFromPackage
extractResourcesFromPackage(pkgJson) ==
  LET rs == pkgJson.result.resources
  IN [i \in 1..Len(rs) |->
        [id |-> rs[i].id,
         url |-> rs[i].url,
         format |-> ToLowerCase(Or(Or(rs[i].format, rs[i].mimetype), <<>>)),
         name |-> Or(rs[i].name, rs[i].id)]]

\* the format allowlist of the walker, in the order Array.some tries it
FORMATS == << <<"c","s","v">>, <<"x","m","l">>, <<"j","s","o","n">>,
             <<"t","e","x","t">>, <<>> >>

\* ["csv","xml","json","text",""].some(e => ext.includes(e) || r.url.endsWith(`.${e}`))
\* "pass", "reject", or "throw" (r.url.endsWith on a missing url)
RECURSIVE SomeFormat(_, _, _)
SomeFormat(ext, url, k) ==
  IF k > Len(FORMATS) THEN "reject"
  ELSE IF Includes(ext, FORMATS[k]) THEN "pass"
  ELSE IF url = Undefined THEN "throw"
  ELSE IF EndsWith(url, <<".">> \o FORMATS[k]) THEN "pass"
  ELSE SomeFormat(ext, url, k + 1)

FormatFilter(r) == SomeFormat(ToLowerCase(Or(r.format, <<>>)), r.url, 1)

\* a request reaches the server. The client (a daily schedule) sends one
\* only when no request is in flight, so the one handler in use is request 1
Arrive(q) ==
  /\ pc[q] = "idle"
  /\ \A o \in Req : pc[o] = "idle"
  /\ q = 1
  /\ received < MaxRequests
  /\ received' = received + 1
  /\ \E r \in Requests : req' = [req EXCEPT ![q] = r]
  /\ pc' = [pc EXCEPT ![q] = "routing"]
  /\ resp' = [resp EXCEPT ![q] = 0]
  /\ respBody' = [respBody EXCEPT ![q] = NoBody]
  /\ UNCHANGED <<envVars, processed, storeVars, walk, loc, calls, lastRes, chunkVars>>

\* the routes of the server callback that call runIngest
TriggerRoutes == {"/", "/trigger", "/ingest"}
IsTrigger(r) == r.method = "POST" /\ r.url \in TriggerRoutes

\* req.headers["x-api-key"] || req.headers["X-API-KEY"] || "" : node stores
\* header names in lower case, the second lookup finds nothing
HeaderKey(r) == Or(Or(r.key, Undefined), <<>>)

\* runIngest with the key comparison left out
TriggerNoAuth(q) ==
  /\ pc[q] = "routing"
  /\ IsTrigger(req[q])
  /\ pc' = [pc EXCEPT ![q] = "listing"]
  /\ resp' = resp
  /\ respBody' = respBody
  /\ req' = [req EXCEPT ![q] = NoReq]
  /\ UNCHANGED <<envVars, processed, storeVars, received, walk, loc, calls, lastRes,
                 chunkVars>>

\* POST / | /trigger | /ingest: runIngest compares the key when a secret is
\* set (401 when it differs), else calls processOpenCanada, which suspends in
\* listOpenCanadaDatasets
Trigger(q) ==
  /\ pc[q] = "routing"
  /\ IsTrigger(req[q])
  /\ IF Truthy(apiSecret) /\ HeaderKey(req[q]) # apiSecret
     THEN /\ pc' = [pc EXCEPT ![q] = "idle"]
          /\ resp' = [resp EXCEPT ![q] = 401]
          /\ respBody' = [respBody EXCEPT ![q] = Unauthorized]
     ELSE /\ pc' = [pc EXCEPT ![q] = "listing"]
          /\ resp' = resp
          /\ respBody' = respBody
  /\ req' = [req EXCEPT ![q] = NoReq]
  /\ UNCHANGED <<envVars, processed, storeVars, received, walk, loc, calls, lastRes,
                 chunkVars>>

\* GET /health
Health(q) ==
  /\ pc[q] = "routing"
  /\ ~IsTrigger(req[q])
  /\ req[q].method = "GET" /\ req[q].url = "/health"
  /\ pc' = [pc EXCEPT ![q] = "idle"]
  /\ resp' = [resp EXCEPT ![q] = 200]
  /\ respBody' = [respBody EXCEPT ![q] = HealthBody]
  /\ req' = [req EXCEPT ![q] = NoReq]
  /\ UNCHANGED <<envVars, processed, storeVars, received, walk, loc, calls, lastRes,
                 chunkVars>>

\* any other method or url
NotFound(q) ==
  /\ pc[q] = "routing"
  /\ ~IsTrigger(req[q])
  /\ ~(req[q].method = "GET" /\ req[q].url = "/health")
  /\ pc' = [pc EXCEPT ![q] = "idle"]
  /\ resp' = [resp EXCEPT ![q] = 404]
  /\ respBody' = [respBody EXCEPT ![q] = NotFoundText]
  /\ req' = [req EXCEPT ![q] = NoReq]
  /\ UNCHANGED <<envVars, processed, storeVars, received, walk, loc, calls, lastRes,
                 chunkVars>>

\* the listing failure with no try around runIngest: the rejection is
\* unhandled, the process ends and the request gets no response
ListDatasetsUncaught(q) ==
  /\ pc[q] = "listing"
  /\ \E ok \in BOOLEAN :
       IF ok
       THEN /\ walk' = [walk EXCEPT ![q] =
                          [NoWalk EXCEPT !.ids = SubSeq(catalog.ids, 1,
                                                        Min(50, Len(catalog.ids))),
                                         !.dsIdx = 1]]
            /\ pc' = [pc EXCEPT ![q] = "dataset"]
       ELSE /\ pc' = [o \in Req |-> "exited"]
            /\ walk' = walk
  /\ UNCHANGED <<envVars, processed, storeVars, received, resp, respBody, req, loc, calls, lastRes,
                 chunkVars>>

\* listOpenCanadaDatasets answers: the ids (at most 50), or the download or
\* JSON.parse throws, which nothing in processOpenCanada or runIngest catches:
\* the catch of the server callback answers 500
ListDatasets(q) ==
  /\ pc[q] = "listing"
  /\ \E ok \in BOOLEAN :
       IF ok
       THEN /\ walk' = [walk EXCEPT ![q] =
                          [NoWalk EXCEPT !.ids = SubSeq(catalog.ids, 1,
                                                        Min(50, Len(catalog.ids))),
                                         !.dsIdx = 1]]
            /\ pc' = [pc EXCEPT ![q] = "dataset"]
            /\ resp' = resp
            /\ respBody' = respBody
       ELSE /\ pc' = [pc EXCEPT ![q] = "idle"]
            /\ resp' = [resp EXCEPT ![q] = 500]
            /\ respBody' = [respBody EXCEPT ![q] = ErrorBody]
            /\ walk' = walk
  /\ UNCHANGED <<envVars, processed, storeVars, received, req, loc, calls, lastRes,
                 chunkVars>>

\* the dataset loop without its try: a failed metadata fetch leaves
\* processOpenCanada and runIngest, and the server callback answers 500
FetchPackageAbort(q) ==
  /\ pc[q] = "dataset"
  /\ walk[q].dsIdx <= Len(walk[q].ids)
  /\ \E ok \in BOOLEAN :
       IF ok
       THEN LET pkg == catalog.pkgs[walk[q].ids[walk[q].dsIdx]]
            IN /\ walk' = [walk EXCEPT ![q].pkg = pkg,
                                       ![q].resources = extractResourcesFromPackage(pkg),
                                       ![q].rIdx = 1]
               /\ pc' = [pc EXCEPT ![q] = "resloop"]
               /\ resp' = resp
               /\ respBody' = respBody
       ELSE /\ walk' = [walk EXCEPT ![q] = NoWalk]
            /\ pc' = [pc EXCEPT ![q] = "idle"]
            /\ resp' = [resp EXCEPT ![q] = 500]
            /\ respBody' = [respBody EXCEPT ![q] = ErrorBody]
  /\ UNCHANGED <<envVars, processed, storeVars, received, req, loc, calls, lastRes,
                 chunkVars>>

\* for (const id of ids): fetchOpenCanadaPackage(id); a failure is caught by
\* the try around the body and the loop goes on with the next id
FetchPackage(q) ==
  /\ pc[q] = "dataset"
  /\ walk[q].dsIdx <= Len(walk[q].ids)
  /\ \E ok \in BOOLEAN :
       IF ok
       THEN LET pkg == catalog.pkgs[walk[q].ids[walk[q].dsIdx]]
            IN /\ walk' = [walk EXCEPT ![q].pkg = pkg,
                                       ![q].resources = extractResourcesFromPackage(pkg),
                                       ![q].rIdx = 1]
               /\ pc' = [pc EXCEPT ![q] = "resloop"]
       ELSE /\ walk' = [walk EXCEPT ![q].dsIdx = @ + 1]
            /\ pc' = pc
  /\ UNCHANGED <<envVars, processed, storeVars, received, resp, respBody, req, loc, calls, lastRes, chunkVars>>

\* the loop over ids is over: runIngest builds the 200 response and the
\* server callback writes it
FinishRun(q) ==
  /\ pc[q] = "dataset"
  /\ walk[q].dsIdx > Len(walk[q].ids)
  /\ pc' = [pc EXCEPT ![q] = "idle"]
  /\ resp' = [resp EXCEPT ![q] = 200]
  /\ respBody' = [respBody EXCEPT ![q] = CompletedBody]
  /\ walk' = [walk EXCEPT ![q] = NoWalk]
  /\ loc' = [loc EXCEPT ![q] = NoLoc]
  /\ calls' = [calls EXCEPT ![q] = NoCalls]
  /\ UNCHANGED <<envVars, processed, storeVars, received, req, lastRes, chunkVars>>

\* names processResource derives from its arguments
SafeName(datasetId, resource) ==
  Sanitize(Str(datasetId) \o <<"_","_">> \o Str(Or(resource.id, resource.name)))
RawPath(safeName) == safeName \o <<".raw">>
ChecksumFile(rawPath) == rawPath \o <<".sha256">>
DocId(datasetId, resource) == Str(datasetId) \o <<":">> \o Str(resource.id)

\* processResource returns res; the caller resumes after its await
\* (the locals that are dead after the return are dropped)
Return(q, res) ==
  /\ loc' = [loc EXCEPT ![q] = [NoLoc EXCEPT !.resource = loc[q].resource,
                                             !.datasetId = loc[q].datasetId,
                                             !.raw = loc[q].raw,
                                             !.rawPath = loc[q].rawPath,
                                             !.previousChecksum = loc[q].previousChecksum,
                                             !.idx = loc[q].idx,
                                             !.prior = loc[q].prior,
                                             !.result = res]]
  /\ pc' = [pc EXCEPT ![q] = "returned"]
  /\ lastRes' = IF loc[q].rawPath = <<>> THEN lastRes
                ELSE Upd(lastRes, loc[q].rawPath, [res |-> res, raw |-> loc[q].raw])

\* the catch block throwing again: the error reaches the try of the dataset loop
CatchRethrow(q, err) ==
  /\ loc' = [loc EXCEPT ![q] = NoLoc]
  /\ pc' = [pc EXCEPT ![q] = "dataset"]
  /\ lastRes' = lastRes

\* catch (err) { return { ok: false, error: String(err) } }
Catch(q, err) == Return(q, [ok |-> FALSE, error |-> err])

\* for (const r of resources): the format filter, then the call of
\* processResource up to its first await
ResLoop(q) ==
  /\ pc[q] = "resloop"
  /\ LET w == walk[q]
     IN IF w.rIdx > Len(w.resources)
        THEN /\ walk' = [walk EXCEPT ![q].dsIdx = @ + 1]
             /\ pc' = [pc EXCEPT ![q] = "dataset"]
             /\ UNCHANGED <<loc, calls, lastRes, processed>>
        ELSE LET r == w.resources[w.rIdx]
                 f == FormatFilter(r)
             IN CASE f = "throw" ->
                       /\ walk' = [walk EXCEPT ![q].dsIdx = @ + 1]
                       /\ pc' = [pc EXCEPT ![q] = "dataset"]
                       /\ UNCHANGED <<loc, calls, lastRes, processed>>
                  [] f = "reject" ->
                       /\ walk' = [walk EXCEPT ![q].rIdx = @ + 1]
                       /\ UNCHANGED <<pc, loc, calls, lastRes, processed>>
                  [] f = "pass" ->
                       /\ processed < MaxProcessed
                       /\ processed' = processed + 1
                       /\ calls' = [calls EXCEPT ![q] = NoCalls]
                       /\ walk' = walk
                       /\ lastRes' = lastRes
                       /\ loc' = [loc EXCEPT ![q] =
                                    [NoLoc EXCEPT !.resource = r,
                                                  !.datasetId = w.ids[w.dsIdx],
                                                  !.result = IF Truthy(r.url) THEN NoResult
                                                             ELSE [skipped |-> TRUE]]]
                       /\ pc' = [pc EXCEPT ![q] = IF Truthy(r.url) THEN "download"
                                                  ELSE "returned"]
  /\ UNCHANGED <<envVars, storeVars, received, resp, respBody, req, chunkVars>>

\* console.log("Resource process result:", res) and the next iteration
LogResult(q) ==
  /\ pc[q] = "returned"
  /\ walk' = [walk EXCEPT ![q].rIdx = @ + 1]
  /\ pc' = [pc EXCEPT ![q] = "resloop"]
  /\ UNCHANGED <<envVars, processed, storeVars, received, resp, respBody, req, loc, calls, lastRes, chunkVars>>

\* ------------------------------------------------------------------------
\* parseDocumentText (helper.js, 35-57)
\* ------------------------------------------------------------------------
Throws == [throws |-> TRUE]

\* JSON.stringify(obj, null, 2) of a parsed body: a bracketed dump
StructDump(raw) == <<"{">> \o raw \o <<"}">>
\* the "k: v" blocks of the parsed records; a body without a line break is a
\* header line only and has no records
CsvText(raw) == <<>>

\* accepts.xml / .json / .csv : whether that parser accepts the body
parseDocumentText(raw, mime, url, accepts) ==
  IF Includes(mime, <<"x","m","l">>) \/ EndsWith(url, <<".","x","m","l">>)
  THEN IF accepts.xml THEN [text |-> StructDump(raw)] ELSE Throws
  ELSE IF (Includes(mime, <<"j","s","o","n">>) \/ EndsWith(url, <<".","j","s","o","n">>))
          /\ accepts.json
  THEN [text |-> StructDump(raw)]
  ELSE IF (Includes(mime, <<"c","s","v">>) \/ EndsWith(url, <<".","c","s","v">>)
           \/ EndsWith(url, <<".","t","s","v">>))
          /\ accepts.csv
  THEN [text |-> CsvText(raw)]
  ELSE [text |-> raw]

Accepts == [xml : BOOLEAN, json : BOOLEAN, csv : BOOLEAN]

\* ------------------------------------------------------------------------
\* createOpenAIEmbedding (helper.js, 80-95)
\* ------------------------------------------------------------------------
Zeros(n) == [i \in 1..n |-> 0]

\* what the provider can answer: a non-2xx status, a body without data, a
\* vector of the configured dimension, a vector of another dimension
EmbedResponses ==
  { [ok |-> FALSE, data |-> <<>>],
    [ok |-> TRUE, data |-> <<>>],
    [ok |-> TRUE, data |-> <<[embedding |-> Arr(Zeros(VECTOR_DIM))]>>],
    [ok |-> TRUE, data |-> <<[embedding |-> Arr(Zeros(VECTOR_DIM + 1))]>>] }

\* j.data?.[0]?.embedding ?? null, or a throw when !res.ok
createOpenAIEmbedding(res) ==
  IF ~res.ok THEN Throws
  ELSE IF Len(res.data) = 0 THEN [value |-> Null]
  ELSE [value |-> res.data[1].embedding]

\* ------------------------------------------------------------------------
\* processResource (part_000, 89-178), one action per await
\* ------------------------------------------------------------------------
Bump(q, field) == calls' = [calls EXCEPT ![q][field] = @ + 1]

\* const raw = await downloadToString(resource.url), then the checksum and
\* the file names
Download(q) ==
  /\ pc[q] = "download"
  /\ \/ /\ Catch(q, "download")
     \/ \E body \in Contents :
          LET safeName == SafeName(loc[q].datasetId, loc[q].resource)
          IN /\ loc' = [loc EXCEPT ![q].raw = body,
                                   ![q].checksum = checksumString(body),
                                   ![q].safeName = safeName,
                                   ![q].rawPath = RawPath(safeName),
                                   ![q].prior = IF RawPath(safeName) \in DOMAIN lastRes
                                                THEN lastRes[RawPath(safeName)]
                                                ELSE NoPrior]
             /\ pc' = [pc EXCEPT ![q] = "readsum"]
             /\ lastRes' = lastRes
  /\ UNCHANGED <<envVars, processed, storeVars, received, resp, respBody, req, walk, calls, chunkVars>>

\* the read done on the raw file instead of the digest file
ReadSumWrongFile(q) ==
  /\ pc[q] = "readsum"
  /\ LET f == loc[q].rawPath
         previousChecksum == IF f \in DOMAIN files THEN files[f] ELSE NullStr
     IN IF previousChecksum = loc[q].checksum
        THEN Return(q, [skipped |-> TRUE])
        ELSE /\ loc' = [loc EXCEPT ![q].previousChecksum = previousChecksum]
             /\ pc' = [pc EXCEPT ![q] = "writeraw"]
             /\ lastRes' = lastRes
  /\ UNCHANGED <<envVars, processed, storeVars, received, resp, respBody, req, walk, calls, chunkVars>>

\* previousChecksum = await fs.readFile(checksumFile) (null when it throws);
\* if (previousChecksum === checksum) return { skipped: true }
ReadSum(q) ==
  /\ pc[q] = "readsum"
  /\ LET f == ChecksumFile(loc[q].rawPath)
         previousChecksum == IF f \in DOMAIN files THEN files[f] ELSE NullStr
     IN IF previousChecksum = loc[q].checksum
        THEN Return(q, [skipped |-> TRUE])
        ELSE /\ loc' = [loc EXCEPT ![q].previousChecksum = previousChecksum]
             /\ pc' = [pc EXCEPT ![q] = "writeraw"]
             /\ lastRes' = lastRes
  /\ UNCHANGED <<envVars, processed, storeVars, received, resp, respBody, req, walk, calls, chunkVars>>

\* await fs.writeFile(rawPath, raw)
WriteRaw(q) ==
  /\ pc[q] = "writeraw"
  /\ files' = Upd(files, loc[q].rawPath, loc[q].raw)
  /\ Bump(q, "file")
  /\ pc' = [pc EXCEPT ![q] = "writesum"]
  /\ UNCHANGED <<envVars, processed, pgRows, pgTxn, graph, received, resp, respBody, req, walk, loc,
                 lastRes, chunkVars>>

\* the chunk objects processResource maps the chunker's output to
MapChunks(cs, safeName, datasetId, resource) ==
  [i \in 1..Len(cs) |->
     [chunk_id |-> safeName \o <<"_chunk_", ToString(cs[i].chunkIndex)>>,
      chunk_index |-> cs[i].chunkIndex,
      text |-> cs[i].text,
      summary |-> cs[i].summary,
      token_count |-> Max(1, (4 * Len(SplitWs(cs[i].text))) \div 3),
      citation_label |-> <<"[">> \o Str(datasetId) \o <<" * ">> \o Str(resource.name)
                         \o <<" * chunk#", ToString(cs[i].chunkIndex), "]">>]]

\* await fs.writeFile(checksumFile, checksum), then parseDocumentText and
\* chunkText, which run without suspending
WriteSum(q) ==
  /\ pc[q] = "writesum"
  /\ files' = Upd(files, ChecksumFile(loc[q].rawPath), loc[q].checksum)
  /\ Bump(q, "file")
  /\ \E accepts \in Accepts :
       LET r == loc[q].resource
           parsed == parseDocumentText(loc[q].raw, r.format, r.url, accepts)
       IN IF parsed = Throws
          THEN Catch(q, "parse")
          ELSE LET out == chunkText(parsed.text, CHUNK_WORDS, OVERLAP_WORDS)
               IN IF out = Diverges
                  THEN /\ pc' = [pc EXCEPT ![q] = "hung"]
                       /\ UNCHANGED <<loc, lastRes>>
                  ELSE /\ loc' = [loc EXCEPT
                                    ![q].chunks = MapChunks(out, loc[q].safeName,
                                                            loc[q].datasetId, r),
                                    ![q].vectors = <<>>,
                                    ![q].idx = 1]
                       /\ pc' = [pc EXCEPT ![q] = "embed"]
                       /\ lastRes' = lastRes
  /\ UNCHANGED <<envVars, processed, pgRows, pgTxn, graph, received, resp, respBody, req, walk, chunkVars>>

\* the loop swallowing a failed embedding call and going on with the next chunk
EmbedSkipFailed(q) ==
  /\ pc[q] = "embed"
  /\ loc[q].idx <= Len(loc[q].chunks)
  /\ \E res \in EmbedResponses :
       LET emb == createOpenAIEmbedding(res)
           c == loc[q].chunks[loc[q].idx]
           docId == DocId(loc[q].datasetId, loc[q].resource)
       IN IF emb = Throws
          THEN /\ calls' = [calls EXCEPT ![q].embed = @ + 1, ![q].embedFailed = @ + 1]
               /\ loc' = [loc EXCEPT ![q].idx = @ + 1]
               /\ UNCHANGED <<pc, lastRes>>
          ELSE /\ loc' = [loc EXCEPT
                            ![q].vectors = Append(@,
                               [id |-> docId \o <<":chunk:", ToString(c.chunk_index)>>,
                                embedding |-> emb.value,
                                metadata |-> [doc_id |-> docId,
                                              chunk_id |-> c.chunk_id,
                                              source |-> "open_canada",
                                              file_url |-> loc[q].resource.url,
                                              citation_label |-> c.citation_label]]),
                            ![q].idx = @ + 1]
               /\ Bump(q, "embed")
               /\ UNCHANGED <<pc, lastRes>>
  /\ UNCHANGED <<envVars, processed, storeVars, received, resp, respBody, req, walk, chunkVars>>

\* for (const c of chunks): emb = await createOpenAIEmbedding(...); vectors.push
Embed(q) ==
  /\ pc[q] = "embed"
  /\ loc[q].idx <= Len(loc[q].chunks)
  /\ \E res \in EmbedResponses :
       LET emb == createOpenAIEmbedding(res)
           c == loc[q].chunks[loc[q].idx]
           docId == DocId(loc[q].datasetId, loc[q].resource)
       IN IF emb = Throws
          THEN /\ calls' = [calls EXCEPT ![q].embed = @ + 1, ![q].embedFailed = @ + 1]
               /\ Catch(q, "embedding")
          ELSE /\ loc' = [loc EXCEPT
                            ![q].vectors = Append(@,
                               [id |-> docId \o <<":chunk:", ToString(c.chunk_index)>>,
                                embedding |-> emb.value,
                                metadata |-> [doc_id |-> docId,
                                              chunk_id |-> c.chunk_id,
                                              source |-> "open_canada",
                                              file_url |-> loc[q].resource.url,
                                              citation_label |-> c.citation_label]]),
                            ![q].idx = @ + 1]
               /\ Bump(q, "embed")
               /\ UNCHANGED <<pc, lastRes>>
  /\ UNCHANGED <<envVars, processed, storeVars, received, resp, respBody, req, walk, chunkVars>>

\* ------------------------------------------------------------------------
\* upsertPgVectors (helper.js, 118-139) on the one client connection
\* ------------------------------------------------------------------------
\* table vectors is declared embedding vector(DIM), DIM the model's dimension
PG_TABLE_DIM == VECTOR_DIM

\* outcomes of INSERT ... ON CONFLICT (id) DO UPDATE for one vector: the
\* column rejects an array of another length; any query can fail; what the
\* Vector wrapper makes of null is left open
InsertOutcomes(v) ==
  IF v.embedding # Null /\ Len(v.embedding.items) # PG_TABLE_DIM
  THEN {"error"}
  ELSE {"ok", "error"}

\* the table the connection's statements act on
PgTable == IF pgTxn.active THEN pgTxn.work ELSE pgRows

\* a statement failed inside the open transaction: the server refuses every
\* statement but COMMIT and ROLLBACK until the transaction block ends
TxnAborted == pgTxn.active /\ pgTxn.aborted

\* if (pgClient) await upsertPgVectors(pgClient, vectors, VECTOR_DIM):
\* the early return on an empty batch, else BEGIN. BEGIN inside an open
\* transaction is a warning; inside an aborted one it is refused, and the
\* rejection leaves upsertPgVectors before its try block
VSink(q) ==
  /\ pc[q] = "embed"
  /\ loc[q].idx > Len(loc[q].chunks)
  /\ IF pgClient /\ Len(loc[q].vectors) # 0 /\ TxnAborted
     THEN /\ Catch(q, "vector sink")
          /\ UNCHANGED <<pgTxn, calls>>
     ELSE /\ IF pgClient /\ Len(loc[q].vectors) # 0
             THEN /\ pgTxn' = IF pgTxn.active THEN pgTxn
                              ELSE [active |-> TRUE, aborted |-> FALSE, work |-> pgRows]
                  /\ pc' = [pc EXCEPT ![q] = "pgins"]
             ELSE /\ pgTxn' = pgTxn
                  /\ pc' = [pc EXCEPT ![q] = "gsink"]
          /\ loc' = [loc EXCEPT ![q].idx = 1, ![q].before = PgTable]
          /\ UNCHANGED <<calls, lastRes>>
  /\ UNCHANGED <<envVars, processed, files, pgRows, graph, received, resp, respBody, req, walk, chunkVars>>

\* for (const v of vectors): await pgClient.query(INSERT ...)
PgInsert(q) ==
  /\ pc[q] = "pgins"
  /\ loc[q].idx <= Len(loc[q].vectors)
  /\ LET v == loc[q].vectors[loc[q].idx]
         row == [embedding |-> v.embedding, metadata |-> v.metadata]
     IN \E o \in (IF TxnAborted THEN {"error"} ELSE InsertOutcomes(v)) :
          IF o = "ok"
          THEN /\ IF pgTxn.active
                  THEN /\ pgTxn' = [pgTxn EXCEPT !.work = Upd(@, v.id, row)]
                       /\ pgRows' = pgRows
                  ELSE /\ pgRows' = Upd(pgRows, v.id, row)
                       /\ pgTxn' = pgTxn
               /\ Bump(q, "insert")
               /\ loc' = [loc EXCEPT ![q].idx = @ + 1]
               /\ pc' = pc
          ELSE /\ pc' = [pc EXCEPT ![q] = "pgrollback"]
               /\ pgTxn' = IF pgTxn.active THEN [pgTxn EXCEPT !.aborted = TRUE]
                            ELSE pgTxn
               /\ UNCHANGED <<pgRows, calls, loc>>
  /\ UNCHANGED <<envVars, processed, files, graph, received, resp, respBody, req, walk, lastRes, chunkVars>>

\* await pgClient.query("COMMIT"): ends the transaction block; the work of an
\* aborted transaction is discarded, and the query resolves either way
PgCommit(q) ==
  /\ pc[q] = "pgins"
  /\ loc[q].idx > Len(loc[q].vectors)
  /\ pgRows' = IF TxnAborted THEN pgRows ELSE PgTable
  /\ pgTxn' = [active |-> FALSE, aborted |-> FALSE, work |-> EmptyFn]
  /\ Bump(q, "commit")
  /\ loc' = [loc EXCEPT ![q].idx = 1]
  /\ pc' = [pc EXCEPT ![q] = "gsink"]
  /\ UNCHANGED <<envVars, processed, files, graph, received, resp, respBody, req, walk, lastRes, chunkVars>>

\* the rollback not followed by the throw: processResource goes on to the
\* graph sink
PgRollbackContinue(q) ==
  /\ pc[q] = "pgrollback"
  /\ pgTxn' = [active |-> FALSE, aborted |-> FALSE, work |-> EmptyFn]
  /\ loc' = [loc EXCEPT ![q].idx = 1]
  /\ pc' = [pc EXCEPT ![q] = "gsink"]
  /\ UNCHANGED <<envVars, processed, files, pgRows, graph, received, resp, respBody, req, walk, calls,
                 lastRes, chunkVars>>

\* catch (err) { await pgClient.query("ROLLBACK"); throw err }
PgRollback(q) ==
  /\ pc[q] = "pgrollback"
  /\ pgTxn' = [active |-> FALSE, aborted |-> FALSE, work |-> EmptyFn]
  /\ Catch(q, "vector sink")
  /\ UNCHANGED <<envVars, processed, files, pgRows, graph, received, resp, respBody, req, walk, calls,
                 chunkVars>>

\* ------------------------------------------------------------------------
\* createNeo4jNodes (helper.js, 159-219)
\* ------------------------------------------------------------------------
\* MERGE (n {key: k}) SET props : one node per key, properties overwritten
Merge(nodes, key, node) == {n \in nodes : n[key] # node[key]} \cup {node}

\* the return after the sinks
Done(q) ==
  Return(q, [ok |-> TRUE, doc_id |-> DocId(loc[q].datasetId, loc[q].resource),
             chunks |-> Len(loc[q].chunks)])

\* if (neo4jDriver): the first session.run (MERGE Source, MERGE Dataset,
\* CREATE Document, CREATE HAS_DOCUMENT); else the return
GSink(q) ==
  /\ pc[q] = "gsink"
  /\ IF neo4jDriver
     THEN \E ok \in BOOLEAN :
            IF ok
            THEN LET r == loc[q].resource
                     meta == walk[q].pkg.result
                     source == [source_id |-> "open_canada", name |-> "OpenCanada"]
                     dataset == [dataset_id |-> loc[q].datasetId,
                                 title |-> Or(meta.title, loc[q].datasetId),
                                 description |-> Or(meta.notes, <<>>)]
                     doc == [doc_id |-> DocId(loc[q].datasetId, r),
                             title |-> Or(r.name, r.id),
                             file_url |-> r.url,
                             mime |-> Or(r.format, <<>>),
                             dataset_id |-> loc[q].datasetId,
                             chunks |-> <<>>]
                 IN /\ graph' = [sources |-> Merge(graph.sources, "source_id", source),
                                 datasets |-> Merge(graph.datasets, "dataset_id", dataset),
                                 publishes |-> graph.publishes
                                     \cup {<<source.source_id, dataset.dataset_id>>},
                                 docs |-> Append(graph.docs, doc)]
                    /\ Bump(q, "graph")
                    /\ loc' = [loc EXCEPT ![q].idx = 1]
                    /\ pc' = [pc EXCEPT ![q] = "gchunks"]
                    /\ lastRes' = lastRes
            ELSE /\ Catch(q, "graph sink")
                 /\ UNCHANGED <<graph, calls>>
     ELSE /\ Done(q)
          /\ UNCHANGED <<graph, calls>>
  /\ UNCHANGED <<envVars, processed, files, pgRows, pgTxn, received, resp, respBody, req, walk, chunkVars>>

\* for (const c of chunks): session.run(MATCH (doc:Document {doc_id})
\* CREATE (c:Chunk ...) CREATE (doc)-[:HAS_CHUNK]->(c)): one Chunk per
\* Document that carries the doc_id; after the loop the return
GChunk(q) ==
  /\ pc[q] = "gchunks"
  /\ IF loc[q].idx <= Len(loc[q].chunks)
     THEN \E ok \in BOOLEAN :
            IF ok
            THEN LET c == loc[q].chunks[loc[q].idx]
                     docId == DocId(loc[q].datasetId, loc[q].resource)
                     node == [chunk_id |-> c.chunk_id, chunk_index |-> c.chunk_index,
                              text_summary |-> c.summary, token_count |-> c.token_count,
                              citation_label |-> c.citation_label]
                 IN /\ graph' = [graph EXCEPT !.docs =
                                   [i \in 1..Len(@) |->
                                      IF @[i].doc_id = docId
                                      THEN [@[i] EXCEPT !.chunks = Append(@, node)]
                                      ELSE @[i]]]
                    /\ Bump(q, "graph")
                    /\ loc' = [loc EXCEPT ![q].idx = @ + 1]
                    /\ UNCHANGED <<pc, lastRes>>
            ELSE /\ Catch(q, "graph sink")
                 /\ UNCHANGED <<graph, calls>>
     ELSE /\ Done(q)
          /\ UNCHANGED <<graph, calls>>
  /\ UNCHANGED <<envVars, processed, files, pgRows, pgTxn, received, resp, respBody, req, walk, chunkVars>>

\* ------------------------------------------------------------------------
\* The service without a shared secret: requests arrive one after the other
\* ------------------------------------------------------------------------
Next ==
  \E q \in Req :
    \/ Arrive(q)
    \/ Trigger(q)
    \/ Health(q)
    \/ NotFound(q)
    \/ ListDatasets(q)
    \/ FetchPackage(q)
    \/ FinishRun(q)
    \/ ResLoop(q)
    \/ LogResult(q)
    \/ Download(q)
    \/ ReadSum(q)
    \/ WriteRaw(q)
    \/ WriteSum(q)
    \/ Embed(q)
    \/ VSink(q)
    \/ PgInsert(q)
    \/ PgCommit(q)
    \/ PgRollback(q)
    \/ GSink(q)
    \/ GChunk(q)

Spec == Init /\ [][Next]_vars

\* ------------------------------------------------------------------------
\* The service with API_SECRET set or not set, both sinks configured
\* ------------------------------------------------------------------------
InitAuth ==
  /\ catalog = CatalogA
  /\ pgClient = TRUE
  /\ neo4jDriver = TRUE
  /\ apiSecret \in Secrets
  /\ InitStores
  /\ cText = <<>> /\ cW = 1 /\ cO = 0 /\ cOut = NoOut

SpecAuth == InitAuth /\ [][Next]_vars

\* ------------------------------------------------------------------------
\* Overlapping requests: the server callback is async, a request that arrives
\* while another is suspended at an await is handled at once
\* ------------------------------------------------------------------------
InitConc ==
  /\ catalog = CatalogS
  /\ pgClient = TRUE
  /\ neo4jDriver = TRUE
  /\ apiSecret = Undefined
  /\ InitStores
  /\ cText = <<>> /\ cW = 1 /\ cO = 0 /\ cOut = NoOut

\* a request reaches the server, whatever the other handlers are doing
ArriveAny(q) ==
  /\ pc[q] = "idle"
  /\ received < MaxRequests
  /\ received' = received + 1
  /\ \E r \in Requests : req' = [req EXCEPT ![q] = r]
  /\ pc' = [pc EXCEPT ![q] = "routing"]
  /\ resp' = [resp EXCEPT ![q] = 0]
  /\ respBody' = [respBody EXCEPT ![q] = NoBody]
  /\ UNCHANGED <<envVars, processed, storeVars, walk, loc, calls, lastRes, chunkVars>>

NextConc ==
  \E q \in Req :
    \/ ArriveAny(q)
    \/ Trigger(q)
    \/ Health(q)
    \/ NotFound(q)
    \/ ListDatasets(q)
    \/ FetchPackage(q)
    \/ FinishRun(q)
    \/ ResLoop(q)
    \/ LogResult(q)
    \/ Download(q)
    \/ ReadSum(q)
    \/ WriteRaw(q)
    \/ WriteSum(q)
    \/ Embed(q)
    \/ VSink(q)
    \/ PgInsert(q)
    \/ PgCommit(q)
    \/ PgRollback(q)
    \/ GSink(q)
    \/ GChunk(q)

SpecConc == InitConc /\ [][NextConc]_vars

\* ------------------------------------------------------------------------
\* The chunker on its own: every text, window and overlap within the bounds
\* ------------------------------------------------------------------------
Chars == {"a", "b", " "}
Texts == UNION {[1..k -> Chars] : k \in 0..MaxTextLen}

InitChunk ==
  /\ catalog = CatalogA
  /\ pgClient = FALSE
  /\ neo4jDriver = FALSE
  /\ apiSecret = Undefined
  /\ InitStores
  /\ cText \in Texts
  /\ cW \in 1..MaxWindow
  /\ cO \in 0..MaxWindow
  /\ cOut = NoOut

ChunkCall ==
  /\ cOut = NoOut
  /\ cOut' = chunkText(cText, cW, cO)
  /\ UNCHANGED <<envVars, processed, storeVars, received, pc, resp, respBody, req, walk, loc,
                 calls, lastRes, cText, cW, cO>>

NextChunk == ChunkCall

SpecChunk == InitChunk /\ [][NextChunk]_vars

\* ------------------------------------------------------------------------
\* Properties
\* ------------------------------------------------------------------------
Skipped(res) == "skipped" \in DOMAIN res
Ok(res) == "ok" \in DOMAIN res /\ res.ok
Failed(res) == "ok" \in DOMAIN res /\ ~res.ok
LateFailure(res) ==
  Failed(res) /\ res.error \in {"embedding", "vector sink", "graph sink"}

\* processResource is suspended at one of its awaits
Processing == {"download", "readsum", "writeraw", "writesum", "embed", "pgins",
               "pgrollback", "gsink", "gchunks", "hung"}
\* the awaits after the raw and digest files were written
AfterDigestWrite == {"embed", "pgins", "pgrollback", "gsink", "gchunks"}

\* the digest recorded for a raw path, null when there is no record
StoredDigest(rawPath) ==
  IF ChecksumFile(rawPath) \in DOMAIN files THEN files[ChecksumFile(rawPath)]
  ELSE NullStr

\* C1: the checksum record of a resource is overwritten only after all
\* embeddings and every configured sink succeeded; while the pipeline is
\* still running, and after a run that failed, the stored digest is the one
\* that was stored before the run
C1_ChecksumCommittedLast ==
  \A q \in Req :
    (\/ pc[q] \in AfterDigestWrite
     \/ (pc[q] = "returned" /\ Failed(loc[q].result) /\ loc[q].rawPath # <<>>))
    => StoredDigest(loc[q].rawPath) = loc[q].previousChecksum

\* C2: after a failure at the embedding stage or at a sink, the next
\* processing of the same unchanged content is not SKIPPED
C2_RetryAfterLateFailure ==
  \A q \in Req :
    (/\ pc[q] = "returned"
     /\ loc[q].rawPath # <<>>
     /\ LateFailure(loc[q].prior.res)
     /\ loc[q].prior.raw = loc[q].raw)
    => ~Skipped(loc[q].result)

\* C3: once a resource was ingested successfully, processing byte-identical
\* content for the same key returns SKIPPED and issues no embedding call, no
\* vector write, no graph write and no file write
C3_UnchangedSkipped ==
  \A q \in Req :
    (/\ pc[q] \in Processing \cup {"returned"}
     /\ loc[q].rawPath # <<>>
     /\ Ok(loc[q].prior.res)
     /\ loc[q].prior.raw = loc[q].raw)
    => /\ pc[q] \in {"readsum", "returned"}
       /\ calls[q] = NoCalls
       /\ pc[q] = "returned" => loc[q].result = [skipped |-> TRUE]

C3_Witness ==
  \E q \in Req :
    /\ pc[q] = "returned"
    /\ received = 2
    /\ loc[q].rawPath # <<>>
    /\ Ok(loc[q].prior.res)
    /\ loc[q].prior.raw = loc[q].raw
    /\ Skipped(loc[q].result)

C5_EmbeddingFailureAborts ==
  \A q \in Req :
    calls[q].embedFailed >= 1
    => /\ pc[q] \in {"returned", "resloop", "dataset"}
       /\ Failed(loc[q].result)
       /\ calls[q].embedFailed = 1
       /\ calls[q].embed = loc[q].idx
       /\ calls[q].insert = 0
       /\ calls[q].commit = 0
       /\ calls[q].graph = 0

C5_Witness ==
  \E q \in Req :
    /\ pc[q] = "returned"
    /\ calls[q].embedFailed = 1
    /\ calls[q].embed = 2
    /\ pgClient
    /\ neo4jDriver

\* C6: the vector upsert compares every vector of the batch with the
\* configured dimension before any write: with a vector of another length,
\* or a null embedding, in the batch, the upsert fails and nothing is written
BadVector(v) ==
  v.embedding = Null \/ Len(v.embedding.items) # VECTOR_DIM

C6_DimensionCheckedFirst ==
  \A q \in Req :
    (/\ pgClient
     /\ pc[q] \in {"pgins", "pgrollback", "gsink", "gchunks"}
     /\ \E i \in 1..Len(loc[q].vectors) : BadVector(loc[q].vectors[i]))
    => /\ pc[q] \in {"pgins", "pgrollback"}
       /\ calls[q].insert = 0
       /\ calls[q].commit = 0

\* C7: a resource whose format is not csv, xml, json or text and whose url
\* has none of these suffixes is never handed to processResource
SupportedResource(r) ==
  \E k \in 1..4 :
    \/ Includes(ToLowerCase(Or(r.format, <<>>)), FORMATS[k])
    \/ (r.url # Undefined /\ EndsWith(r.url, <<".">> \o FORMATS[k]))

C7_UnsupportedExcluded ==
  \A q \in Req :
    pc[q] \in Processing \cup {"returned"} => SupportedResource(loc[q].resource)

\* C8: processing an empty body (one that is fetched and normalized) issues
\* no embedding call, calls no sink and returns success with 0 chunks
C8_EmptyContent ==
  \A q \in Req :
    (/\ pc[q] \in Processing \cup {"returned"}
     /\ loc[q].rawPath # <<>>
     /\ loc[q].raw = <<>>
     /\ ~(Failed(loc[q].result) /\ loc[q].result.error = "parse"))
    => /\ calls[q].embed = 0
       /\ calls[q].insert = 0
       /\ calls[q].graph = 0
       /\ (pc[q] = "returned" /\ ~Skipped(loc[q].result))
            => (Ok(loc[q].result) /\ loc[q].result.chunks = 0)

\* the words of a text: the non-empty pieces between whitespace runs
NonEmpty(w) == w # <<>>
Words(t) == SelectSeq(SplitWs(t), NonEmpty)
FirstN(s, n) == SubSeq(s, 1, Min(n, Len(s)))
LastN(s, n) == SubSeq(s, Max(1, Len(s) - n + 1), Len(s))

\* C9: a text of n words, 1 <= n < window, chunked with overlap < window,
\* gives exactly one chunk, and the chunk holds all n words
C9_ShortTextOneChunk ==
  (/\ cOut # NoOut
   /\ cO < cW
   /\ Len(Words(cText)) >= 1
   /\ Len(Words(cText)) < cW)
  => /\ Len(cOut) = 1
     /\ Words(cOut[1].text) = Words(cText)

\* C10 as stated: for every k (k = 0 included) such that chunks k and k+1
\* exist, the last O words of chunk k are the first O words of chunk k+1
C10_Overlap_Original ==
  (cOut # NoOut /\ cO < cW)
  => \A k \in 1..(Len(cOut) - 1) :
       LastN(Words(cOut[k].text), cO) = FirstN(Words(cOut[k + 1].text), cO)

\* C10 amended: the last O words of chunk k are the first O words of chunk
\* k+1 for every k whose window start is not clamped at 0 and is pulled back
\* from a cursor that has advanced, that is k * (W - O) >= O
C10_Overlap ==
  (cOut # NoOut /\ cO < cW)
  => \A k \in 1..(Len(cOut) - 1) :
       cOut[k].chunkIndex * (cW - cO) >= cO
       => LastN(Words(cOut[k].text), cO) = FirstN(Words(cOut[k + 1].text), cO)

C10_Witness ==
  /\ cOut # NoOut
  /\ cO >= 1
  /\ cO < cW
  /\ \E k \in 1..(Len(cOut) - 1) :
       /\ cOut[k].chunkIndex * (cW - cO) >= cO
       /\ Len(LastN(Words(cOut[k].text), cO)) = cO
       /\ cOut[k].text # cOut[k + 1].text

\* ceil(n / d) for d > 0
CeilDiv(n, d) == (n + d - 1) \div d

\* C11: a text of n >= 1 words chunked with 0 <= O < W gives exactly
\* ceil(n / (W - O)) chunks, numbered 0, 1, ... in order, and chunk k holds
\* the words [max(0, k*(W-O) - O), that start + W) of the text, clipped to n
C11_ChunkCountAndSlices ==
  LET ws == Words(cText)
      n == Len(ws)
  IN (cOut # NoOut /\ cO < cW /\ n >= 1)
     => /\ Len(cOut) = CeilDiv(n, cW - cO)
        /\ \A k \in 0..(Len(cOut) - 1) :
             LET start == Max(0, k * (cW - cO) - cO)
             IN /\ cOut[k + 1].chunkIndex = k
                /\ Words(cOut[k + 1].text) = Slice(ws, start, start + cW)

\* what a chunker that validates its configuration would give back
ConfigError == <<[error |-> "invalid chunk configuration"]>>

\* C12: with an invalid chunk configuration (overlap >= window, or window
\* <= 0) the chunker raises an error: it neither loops nor returns chunks
C12_InvalidConfigRejected ==
  (cOut # NoOut /\ (cO >= cW \/ cW <= 0)) => cOut = ConfigError

\* C13: vector ids are unique per (dataset, resource, chunk index), also for
\* resources that have a name and no id: a vector about to be upserted never
\* lands on the stored row of another resource's chunk (chunk_id names the
\* dataset, the resource by id or else by name, and the chunk index)
C13_VectorKeysUnique ==
  \A q \in Req :
    (pc[q] = "pgins" /\ loc[q].idx <= Len(loc[q].vectors))
    => LET v == loc[q].vectors[loc[q].idx]
       IN v.id \in DOMAIN PgTable
          => PgTable[v.id].metadata.chunk_id = v.metadata.chunk_id

\* C14: the vector sink write has completed before the graph sink starts; a
\* sink that is not configured is skipped and causes no failure; after a
\* vector sink failure the graph sink is not called
C14_SinkOrder ==
  \A q \in Req :
    LET graphStarted == \/ pc[q] = "gchunks"
                        \/ calls[q].graph >= 1
                        \/ (Failed(loc[q].result) /\ loc[q].result.error = "graph sink")
        vectorFailed == \/ pc[q] = "pgrollback"
                        \/ (Failed(loc[q].result) /\ loc[q].result.error = "vector sink")
    IN /\ graphStarted =>
            /\ neo4jDriver
            /\ pgClient => (calls[q].commit = 1 /\ calls[q].insert = calls[q].embed)
            /\ ~pgClient => (calls[q].commit = 0 /\ calls[q].insert = 0)
       /\ vectorFailed => (pgClient /\ calls[q].graph = 0 /\ calls[q].commit = 0)
       /\ pc[q] \in {"pgins", "pgrollback"} => pgClient
       /\ (pc[q] = "returned" /\ ~pgClient /\ ~neo4jDriver /\ Failed(loc[q].result))
            => loc[q].result.error \in {"download", "parse", "embedding"}

C14_Witness ==
  \E q \in Req :
    /\ pc[q] = "gchunks"
    /\ pgClient
    /\ calls[q].commit = 1
    /\ calls[q].insert = 2
    /\ calls[q].graph >= 2

\* number of Chunk nodes in the graph
RECURSIVE ChunkNodes(_)
ChunkNodes(docs) ==
  IF docs = <<>> THEN 0 ELSE Len(Head(docs).chunks) + ChunkNodes(Tail(docs))

\* C15: every statement of the chunk loop adds one Chunk node, linked by
\* HAS_CHUNK to the Document created by the same call and to no other
\* Document (so a call adds one Document and len(chunks) Chunk nodes), and
\* there is one Source node per source_id and one Dataset node per dataset_id
C15_GraphPerCall ==
  [][\A q \in Req :
       (pc[q] = "gchunks" /\ graph'.docs # graph.docs)
       => /\ Len(graph'.docs) = Len(graph.docs)
          /\ ChunkNodes(graph'.docs) = ChunkNodes(graph.docs) + 1
          /\ \A i \in 1..(Len(graph.docs) - 1) : graph'.docs[i] = graph.docs[i]
          /\ \A s1, s2 \in graph'.sources : s1.source_id = s2.source_id => s1 = s2
          /\ \A d1, d2 \in graph'.datasets : d1.dataset_id = d2.dataset_id => d1 = d2]_vars

\* the request carries what runIngest accepts
Authorized(r) == ~Truthy(apiSecret) \/ r.key = apiSecret

\* C16: a POST to /, /trigger or /ingest starts the pipeline if and only if
\* no secret is configured or the x-api-key header equals the secret;
\* otherwise the response is 401 and nothing is called or written
C16_TriggerAuthorization ==
  [][\A q \in Req :
       (pc[q] = "routing" /\ IsTrigger(req[q]) /\ pc'[q] # "routing")
       => /\ pc'[q] = "listing" <=> Authorized(req[q])
          /\ ~Authorized(req[q]) =>
               /\ pc'[q] = "idle"
               /\ resp'[q] = 401
               /\ UNCHANGED <<storeVars, processed, walk, loc, calls, lastRes>>]_vars

\* a request with a wrong key was answered 401 after an accepted trigger
\* had run and written files
C16_Witness ==
  \E q \in Req :
    /\ Truthy(apiSecret)
    /\ pc[q] = "idle"
    /\ resp[q] = 401
    /\ received = 2
    /\ files # EmptyFn

Statuses == {200, 401, 404, 500}

\* C17: every request gets exactly one response, with status 200, 401, 404
\* or 500: a handler ends only by writing a response, a written response is
\* not written again, an exception that escapes the pipeline (the catalog
\* listing failing) becomes a 500, and after it the server takes the next
\* request
C17_OneResponse ==
  [][\A q \in Req :
       /\ resp'[q] # resp[q] =>
            \/ (pc[q] = "idle" /\ pc'[q] = "routing" /\ resp'[q] = 0)
            \/ (pc[q] # "idle" /\ pc'[q] = "idle" /\ resp[q] = 0 /\ resp'[q] \in Statuses)
       /\ (pc[q] # "idle" /\ pc'[q] # pc[q]) =>
            \/ pc'[q] \in Processing \cup {"listing", "dataset", "resloop", "returned"}
            \/ (pc'[q] = "idle" /\ resp'[q] \in Statuses)
       /\ (pc[q] = "listing" /\ pc'[q] \notin {"listing", "dataset"}) =>
            (pc'[q] = "idle" /\ resp'[q] = 500)
       /\ (pc[q] = "routing" /\ ~IsTrigger(req[q]) /\ pc'[q] # "routing") =>
            resp'[q] = IF req[q].method = "GET" /\ req[q].url = "/health" THEN 200
                       ELSE 404
       /\ (pc[q] = "idle" /\ resp[q] = 500 /\ received < MaxRequests) => ENABLED Arrive(q)]_vars

\* the second request was a trigger whose catalog listing failed, answered 500
C17_Witness ==
  \E q \in Req :
    /\ pc[q] = "idle"
    /\ resp[q] = 500
    /\ received = 2
    /\ files # EmptyFn

\* C18: the normalizer never raises: when the markup, structured or tabular
\* parser rejects the body it falls through to the next branch, so a changed
\* resource never fails because its content is malformed
C18_NormalizerNeverRaises ==
  \A q \in Req :
    pc[q] = "returned" => ~(Failed(loc[q].result) /\ loc[q].result.error = "parse")

\* processResource has read the digest file and has not returned yet
AfterChecksumRead == {"writeraw", "writesum", "embed", "pgins", "pgrollback",
                      "gsink", "gchunks", "hung"}

\* C19: in every interleaving of trigger requests, no two executions of
\* processResource for the same resource key are both between the
\* checksum read and the return
C19_NoOverlapPerKey ==
  \A q1, q2 \in Req :
    (q1 # q2 /\ pc[q1] \in AfterChecksumRead /\ pc[q2] \in AfterChecksumRead)
    => loc[q1].rawPath # loc[q2].rawPath

\* C20: when the metadata fetch (or its JSON.parse) of dataset d fails, no
\* resource of d is processed in this run and the loop goes on with the
\* dataset listed after d: the walk moves forward one dataset at a time and
\* the run ends only after the last listed dataset
C20_DatasetIsolation ==
  [][\A q \in Req :
       /\ (pc[q] = "dataset" /\ walk[q].dsIdx <= Len(walk[q].ids)
           /\ <<pc[q], walk[q]>>' # <<pc[q], walk[q]>>)
          => \/ /\ pc'[q] = "resloop"
                /\ walk'[q].dsIdx = walk[q].dsIdx
                /\ walk'[q].ids = walk[q].ids
                /\ walk'[q].pkg = catalog.pkgs[walk[q].ids[walk[q].dsIdx]]
             \/ /\ pc'[q] = "dataset"
                /\ walk'[q].dsIdx = walk[q].dsIdx + 1
                /\ walk'[q].ids = walk[q].ids
                /\ UNCHANGED <<processed, storeVars, loc, calls, lastRes, resp>>
       /\ (pc[q] \in Processing \cup {"resloop", "returned"} /\ pc'[q] = "dataset")
          => (walk'[q].dsIdx = walk[q].dsIdx + 1 /\ walk'[q].ids = walk[q].ids)
       /\ (pc[q] \in Processing \cup {"dataset", "resloop", "returned"} /\ pc'[q] = "idle")
          => (pc[q] = "dataset" /\ walk[q].dsIdx > Len(walk[q].ids))]_vars

\* the first request is a trigger; the metadata fetch of d1 failed (nothing
\* was processed before) and the resource of d2 is being processed
C20_Witness ==
  \E q \in Req :
    /\ catalog = CatalogB
    /\ received = 1
    /\ pc[q] = "embed"
    /\ walk[q].dsIdx = 2
    /\ processed = 1
    /\ loc[q].datasetId = D2


\* the per-resource outcomes a response body reports (none when the body has
\* no such field)
Reported(b) == IF "results" \in DOMAIN b THEN b.results ELSE <<>>

\* C21: the success response of the trigger is an aggregate report: when a
\* run that processed a resource ends with 200, the body written holds that
\* resource's outcome (skipped, succeeded, or failed with its cause)
C21_AggregateReport ==
  [][\A q \in Req :
       (pc[q] = "dataset" /\ pc'[q] = "idle" /\ resp'[q] = 200
          /\ loc[q].result # NoResult)
       => \E i \in DOMAIN Reported(respBody'[q]) :
            Reported(respBody'[q])[i] = loc[q].result]_vars


\* the row the INSERT writes for one vector of a batch
Row(v) == [embedding |-> v.embedding, metadata |-> v.metadata]
Holds(table, v) == v.id \in DOMAIN table /\ table[v.id] = Row(v)

\* C22: upsertPgVectors is all-or-nothing: when it leaves through ROLLBACK no
\* vector of its batch has become visible in the store (the store shows for
\* the batch's ids what it showed before the call), and when it leaves through
\* COMMIT every id of its batch maps to the values of this batch
C22_AllOrNothing ==
  [][\A q \in Req :
       /\ (pc[q] = "pgrollback" /\ pc'[q] # "pgrollback")
          => \A i \in DOMAIN loc[q].vectors :
               Holds(PgTable', loc[q].vectors[i])
                 => Holds(loc[q].before, loc[q].vectors[i])
       /\ (pc[q] = "pgins" /\ pc'[q] = "gsink")
          => \A i \in DOMAIN loc[q].vectors :
               Holds(pgRows', loc[q].vectors[i])]_vars


\* position j (from 1) of the word sequence ws lies in a run of consecutive
\* words of ws that is exactly the word sequence cw of a chunk
Covered(ws, j, cw) ==
  \E a \in 0..(Len(ws) - Len(cw)) :
    /\ a < j
    /\ j <= a + Len(cw)
    /\ SubSeq(ws, a + 1, a + Len(cw)) = cw

\* C23: chunk coverage: for a text of n >= 1 words and 0 <= overlap < window,
\* every word position of the text is contained in at least one returned
\* chunk, and every chunk contains at most window words
C23_ChunkCoverage ==
  (/\ cOut # NoOut
   /\ cO < cW
   /\ Len(Words(cText)) >= 1)
  => /\ \A j \in 1..Len(Words(cText)) :
          \E k \in DOMAIN cOut : Covered(Words(cText), j, Words(cOut[k].text))
     /\ \A k \in DOMAIN cOut : Len(Words(cOut[k].text)) <= cW

\* a text of three words cut into several overlapping chunks
C23_Witness ==
  /\ cOut # NoOut
  /\ cO >= 1
  /\ cO < cW
  /\ Len(Words(cText)) >= 3
  /\ Len(cOut) >= 2


\* C24: after a successful re-ingest of a changed resource whose new content
\* gives n chunks, the vector store holds rows of that resource's doc_id only
\* under the ids of chunk indices 0..n-1
C24_NoStaleVectors ==
  \A q \in Req :
    (/\ pc[q] = "returned"
     /\ Ok(loc[q].result)
     /\ pgClient
     /\ Ok(loc[q].prior.res)
     /\ loc[q].prior.raw # loc[q].raw)
    => \A id \in DOMAIN pgRows :
         pgRows[id].metadata.doc_id = loc[q].result.doc_id
           => \E i \in 0..(loc[q].result.chunks - 1) :
                id = loc[q].result.doc_id \o <<":chunk:", ToString(i)>>


\* an execution of processResource for the resource stored under rawPath has
\* been called and has not returned
InProgress(rawPath) ==
  \E q \in Req :
    /\ pc[q] \in Processing
    /\ RawPath(SafeName(loc[q].datasetId, loc[q].resource)) = rawPath

\* C25: whenever no processResource execution for a resource key is in
\* progress, the digest file stored for the key, if present, is the digest of
\* the raw file stored for the key, in every interleaving of runs
C25_LedgerConsistent ==
  \A f \in DOMAIN files :
    (ChecksumFile(f) \in DOMAIN files /\ ~InProgress(f))
    => files[ChecksumFile(f)] = checksumString(files[f])


\* the resource the loop of processOpenCanada is at has no url
AtNoUrl(q) ==
  /\ pc[q] = "resloop"
  /\ walk[q].rIdx <= Len(walk[q].resources)
  /\ ~Truthy(walk[q].resources[walk[q].rIdx].url)

\* C26: a resource without a url is skipped without any fetch or write (it is
\* filtered out, or processResource returns skipped at once), and the loop
\* over the resources of its dataset goes on after it
C26_NoUrlSkipped ==
  [][\A q \in Req :
       (AtNoUrl(q) /\ <<pc[q], walk[q]>>' # <<pc[q], walk[q]>>)
       => /\ pc'[q] \in {"resloop", "returned"}
          /\ pc'[q] = "returned" => Skipped(loc'[q].result)
          /\ storeVars' = storeVars
          /\ walk'[q].dsIdx = walk[q].dsIdx]_vars

====
